---- MODULE Spec2Model ----
(***************************************************************************)
(* A model of the App component of src/App.tsx: the exam configuration,    *)
(* the attachment list, the preview object URL and its effect cleanup,     *)
(* the generation pipeline of handleGenerate and its output sanitizer.     *)
(*                                                                         *)
(* React state is modelled at the granularity of event handlers: a         *)
(* handler runs to completion and its state updates are rendered before    *)
(* the next event is dispatched.  The one place where the render itself    *)
(* has a side effect is the useEffect cleanup of the preview URL, so the   *)
(* commit that follows a change of previewFile is a step of its own        *)
(* (PreviewEffect) that nothing else may precede.                          *)
(*                                                                         *)
(* The handlers fall into groups that write disjoint state, and each group *)
(* has its own specification:                                              *)
(*   SpecConfig    the configuration form (setConfig callers)              *)
(*   SpecPreview   attachments, preview URL, effect cleanup, unmount       *)
(*   Spec          attachments and the generation pipeline, driven through *)
(*                 the rendered UI (the generate button is disabled while  *)
(*                 isLoading)                                              *)
(*   SpecDirect    as Spec, with handleGenerate invoked as a function,     *)
(*                 without the button in front of it                       *)
(*   SpecSanitize  the output sanitizer as a pure function                 *)
(*                                                                         *)
(* Four variables record history and are read by no handler: calls is the  *)
(* number of generateContent calls issued since the last submission that   *)
(* passed validation, published tells whether a non-empty result was ever  *)
(* published, outcome is what the last step of the pipeline did (with the  *)
(* position of the file whose read settled and the response a call         *)
(* resolved with), lastEntry is the text last typed into a count field,    *)
(* with the name of the field, and lastRemoved is the index removeFile was *)
(* called with if the last change of the list was a removal, else -1.      *)
(***************************************************************************)
EXTENDS Integers, Sequences, FiniteSets, TLC

VARIABLES config, files, isDragging, generatedCode, isLoading, error,
          previewFile, effectPreview, renderPending, mounted,
          created, revoked, runs,
          sanIn, sanOut, sanAgain, sanStage,
          calls, published, outcome, lastEntry, lastRemoved

vars == <<config, files, isDragging, generatedCode, isLoading, error,
          previewFile, effectPreview, renderPending, mounted,
          created, revoked, runs,
          sanIn, sanOut, sanAgain, sanStage,
          calls, published, outcome, lastEntry, lastRemoved>>

configVars == <<config, lastEntry>>
fileVars == <<files, isDragging, lastRemoved>>
previewVars == <<previewFile, effectPreview, renderPending, mounted, created, revoked>>
pipelineVars == <<generatedCode, isLoading, error, runs, calls, published, outcome>>
sanVars == <<sanIn, sanOut, sanAgain, sanStage>>

(***************************************************************************)
(* Bounds of the model.                                                    *)
(***************************************************************************)
MaxFiles == 2
MaxUrls == 3
MaxRuns == 2
MaxTextLen == 8

(***************************************************************************)
(* Sequences of characters.  A text is a sequence of characters; the word  *)
(* "latex" is carried as one character of the alphabet, so that the fence  *)
(* with the latex hint is the four elements of FenceLatex; "bt" is the     *)
(* backtick character.                                                     *)
(***************************************************************************)
Backtick == "bt"
Latex == "latex"
Newline == "\n"
Letter == "D"
Alphabet == {Backtick, Latex, Newline, Letter}
Whitespace == {Newline}

Fence == <<Backtick, Backtick, Backtick>>
FenceLatex == <<Backtick, Backtick, Backtick, Latex>>

StartsWith(s, p) ==
    /\ Len(s) >= Len(p)
    /\ SubSeq(s, 1, Len(p)) = p

EndsWith(s, p) ==
    /\ Len(s) >= Len(p)
    /\ SubSeq(s, Len(s) - Len(p) + 1, Len(s)) = p

RECURSIVE TrimStart(_)
TrimStart(s) ==
    IF s # <<>> /\ Head(s) \in Whitespace THEN TrimStart(Tail(s)) ELSE s

RECURSIVE TrimEnd(_)
TrimEnd(s) ==
    IF s # <<>> /\ s[Len(s)] \in Whitespace
    THEN TrimEnd(SubSeq(s, 1, Len(s) - 1))
    ELSE s

Trim(s) == TrimEnd(TrimStart(s))

\* text.replace(/^<marker>/, ''): removes the marker when the text starts with it.
ReplaceOpen(text, marker) ==
    IF StartsWith(text, marker)
    THEN SubSeq(text, Len(marker) + 1, Len(text))
    ELSE text

\* text.replace(/<fence>$/, ''): removes a fence that ends the text.
ReplaceClose(text) ==
    IF EndsWith(text, Fence)
    THEN SubSeq(text, 1, Len(text) - Len(Fence))
    ELSE text

(***************************************************************************)
(* The output sanitizer, lines 172-180 of handleGenerate.                  *)
(***************************************************************************)
\* A sanitizer that tests for the bare fence first: the latex hint stays.
SanitizeBareFirst(text) ==
    Trim(IF StartsWith(text, Fence)
         THEN ReplaceClose(ReplaceOpen(text, Fence))
         ELSE text)

Sanitize(text) ==
    Trim(IF StartsWith(text, FenceLatex)
         THEN ReplaceClose(ReplaceOpen(text, FenceLatex))
         ELSE IF StartsWith(text, Fence)
              THEN ReplaceClose(ReplaceOpen(text, Fence))
              ELSE text)

Texts == UNION {[1..n -> Alphabet] : n \in 0..MaxTextLen}

InitSanVars ==
    /\ sanIn = <<>>
    /\ sanOut = <<>>
    /\ sanAgain = <<>>
    /\ sanStage = 0

\* The raw response text is handed to the sanitizer.
SanitizeOnce ==
    /\ sanStage = 0
    /\ sanOut' = Sanitize(sanIn)
    /\ sanStage' = 1
    /\ UNCHANGED <<sanIn, sanAgain>>
    /\ UNCHANGED <<configVars, fileVars, previewVars, pipelineVars>>

\* The sanitized text is handed to the sanitizer again.
SanitizeAgain ==
    /\ sanStage = 1
    /\ sanAgain' = Sanitize(sanOut)
    /\ sanStage' = 2
    /\ UNCHANGED <<sanIn, sanOut>>
    /\ UNCHANGED <<configVars, fileVars, previewVars, pipelineVars>>

(***************************************************************************)
(* The configuration form.                                                 *)
(***************************************************************************)
\* The max attributes of the two count fields.
MaxMultipleChoice == 50
MaxEssay == 10

Topics == {"", "Fractions"}
Grades == {"1", "2", "3", "4", "5", "6", "7", "8", "9", "10", "11", "12"}
ExamDifficulty == {"EASY", "MEDIUM", "HARD"}
Languages == {"vi", "en"}

\* What the user may leave in a count field: e.target.value of an
\* <input type="number"> is the empty string or a decimal number.
NumEntries ==
    { <<>>, <<"0">>, <<"7">>, <<"9", "9">>, <<"-", "5">>, <<"1", ".", "5">> }

DigitChars == <<"0", "1", "2", "3", "4", "5", "6", "7", "8", "9">>
IsDigit(c) == \E i \in 1..Len(DigitChars) : DigitChars[i] = c
DigitVal(c) == (CHOOSE i \in 1..Len(DigitChars) : DigitChars[i] = c) - 1

RECURSIVE DigitsPrefix(_)
DigitsPrefix(s) ==
    IF s # <<>> /\ IsDigit(Head(s))
    THEN <<Head(s)>> \o DigitsPrefix(Tail(s))
    ELSE <<>>

RECURSIVE DecimalValue(_)
DecimalValue(ds) ==
    IF ds = <<>> THEN 0
    ELSE 10 * DecimalValue(SubSeq(ds, 1, Len(ds) - 1)) + DigitVal(ds[Len(ds)])

\* parseInt(string): an optional sign and the longest run of digits that
\* follows; NaN when there is no digit.
ParseInt(s) ==
    LET signed == s # <<>> /\ Head(s) \in {"-", "+"}
        body == IF signed THEN Tail(s) ELSE s
        ds == DigitsPrefix(body)
    IN  IF ds = <<>> THEN [nan |-> TRUE, val |-> 0]
        ELSE IF signed /\ Head(s) = "-"
             THEN [nan |-> FALSE, val |-> 0 - DecimalValue(ds)]
             ELSE [nan |-> FALSE, val |-> DecimalValue(ds)]

\* A fallback to the initial count instead of 0.
OrInitial(p) == IF p.nan THEN 10 ELSE p.val

\* parseInt(...) || 0: NaN and 0 are falsy.
OrZero(p) == IF p.nan \/ p.val = 0 THEN 0 ELSE p.val

InitConfig ==
    [ topic |-> "",
      grade |-> "6",
      difficulty |-> "MEDIUM",
      numMultipleChoice |-> 10,
      numEssay |-> 2,
      useTikz |-> TRUE,
      varyData |-> FALSE,
      language |-> "vi" ]

SetLanguage(l) ==
    /\ mounted /\ ~renderPending
    /\ config' = [config EXCEPT !.language = l]
    /\ UNCHANGED lastEntry
    /\ UNCHANGED <<fileVars, previewVars, pipelineVars, sanVars>>

SetTopic(t) ==
    /\ mounted /\ ~renderPending
    /\ config' = [config EXCEPT !.topic = t]
    /\ UNCHANGED lastEntry
    /\ UNCHANGED <<fileVars, previewVars, pipelineVars, sanVars>>

SetGrade(g) ==
    /\ mounted /\ ~renderPending
    /\ config' = [config EXCEPT !.grade = g]
    /\ UNCHANGED lastEntry
    /\ UNCHANGED <<fileVars, previewVars, pipelineVars, sanVars>>

SetDifficulty(d) ==
    /\ mounted /\ ~renderPending
    /\ config' = [config EXCEPT !.difficulty = d]
    /\ UNCHANGED lastEntry
    /\ UNCHANGED <<fileVars, previewVars, pipelineVars, sanVars>>

SetNumMultipleChoice(entry) ==
    /\ mounted /\ ~renderPending
    /\ config' = [config EXCEPT !.numMultipleChoice = OrZero(ParseInt(entry))]
    /\ lastEntry' = [field |-> "numMultipleChoice", text |-> entry]
    /\ UNCHANGED <<fileVars, previewVars, pipelineVars, sanVars>>

SetNumEssay(entry) ==
    /\ mounted /\ ~renderPending
    /\ config' = [config EXCEPT !.numEssay = OrZero(ParseInt(entry))]
    /\ lastEntry' = [field |-> "numEssay", text |-> entry]
    /\ UNCHANGED <<fileVars, previewVars, pipelineVars, sanVars>>

ToggleUseTikz ==
    /\ mounted /\ ~renderPending
    /\ config' = [config EXCEPT !.useTikz = ~config.useTikz]
    /\ UNCHANGED lastEntry
    /\ UNCHANGED <<fileVars, previewVars, pipelineVars, sanVars>>

ToggleVaryData ==
    /\ mounted /\ ~renderPending
    /\ config' = [config EXCEPT !.varyData = ~config.varyData]
    /\ UNCHANGED lastEntry
    /\ UNCHANGED <<fileVars, previewVars, pipelineVars, sanVars>>

(***************************************************************************)
(* The attachment list.  A file is its name, its declared MIME type (a     *)
(* sequence of characters, so that startsWith('image/') is a prefix test)  *)
(* and its bytes.                                                          *)
(***************************************************************************)
PdfType == <<"application", "/", "pdf">>
ImagePrefix == <<"image", "/">>

PdfFile == [name |-> "a.pdf", type |-> PdfType, bytes |-> "%PDF"]
PngFile == [name |-> "b.png", type |-> <<"image", "/", "png">>, bytes |-> "png"]
TxtFile == [name |-> "c.txt", type |-> <<"text", "/", "plain">>, bytes |-> "txt"]
FilePool == {PdfFile, PngFile, TxtFile}

\* What a file dialog or a drop may hand over: any files, in any order.
FileLists == UNION {[1..n -> FilePool] : n \in 0..MaxFiles}

\* The filter of onDrop, lines 58-60.
DropFilter(file) ==
    \/ file.type = PdfType
    \/ StartsWith(file.type, ImagePrefix)

RECURSIVE FilterFiles(_)
FilterFiles(fs) ==
    IF fs = <<>> THEN <<>>
    ELSE IF DropFilter(Head(fs))
         THEN <<Head(fs)>> \o FilterFiles(Tail(fs))
         ELSE FilterFiles(Tail(fs))

\* prev.filter((_, index) => index !== indexToRemove), indices from 0.
RECURSIVE FilterIndex(_, _, _)
FilterIndex(fs, index, indexToRemove) ==
    IF fs = <<>> THEN <<>>
    ELSE IF index # indexToRemove
         THEN <<Head(fs)>> \o FilterIndex(Tail(fs), index + 1, indexToRemove)
         ELSE FilterIndex(Tail(fs), index + 1, indexToRemove)

handleFileChange(newFiles) ==
    /\ mounted /\ ~renderPending
    /\ Len(files) + Len(newFiles) <= MaxFiles
    /\ files' = IF Len(newFiles) > 0 THEN files \o newFiles ELSE files
    /\ lastRemoved' = -1
    /\ UNCHANGED isDragging
    /\ UNCHANGED <<configVars, previewVars, pipelineVars, sanVars>>

onDragOver ==
    /\ mounted /\ ~renderPending
    /\ isDragging' = TRUE
    /\ UNCHANGED <<files, lastRemoved>>
    /\ UNCHANGED <<configVars, previewVars, pipelineVars, sanVars>>

onDragLeave ==
    /\ mounted /\ ~renderPending
    /\ isDragging' = FALSE
    /\ UNCHANGED <<files, lastRemoved>>
    /\ UNCHANGED <<configVars, previewVars, pipelineVars, sanVars>>

onDrop(dropped) ==
    /\ mounted /\ ~renderPending
    /\ Len(files) + Len(dropped) <= MaxFiles
    /\ isDragging' = FALSE
    /\ files' = IF Len(dropped) > 0 THEN files \o FilterFiles(dropped) ELSE files
    /\ lastRemoved' = -1
    /\ UNCHANGED <<configVars, previewVars, pipelineVars, sanVars>>

\* A removal that drops the last row, whichever row was clicked.
removeLastFile(indexToRemove) ==
    /\ mounted /\ ~renderPending
    /\ indexToRemove \in 0..(Len(files) - 1)
    /\ files' = SubSeq(files, 1, Len(files) - 1)
    /\ lastRemoved' = indexToRemove
    /\ UNCHANGED isDragging
    /\ UNCHANGED <<configVars, previewVars, pipelineVars, sanVars>>

\* A removal that also closes the preview.
removeFileClosesPreview(indexToRemove) ==
    /\ mounted /\ ~renderPending
    /\ indexToRemove \in 0..(Len(files) - 1)
    /\ files' = FilterIndex(files, 0, indexToRemove)
    /\ lastRemoved' = indexToRemove
    /\ revoked' = IF previewFile.url # 0
                  THEN [revoked EXCEPT ![previewFile.url] = @ + 1]
                  ELSE revoked
    /\ previewFile' = [url |-> 0, type |-> "none", name |-> ""]
    /\ renderPending' = (previewFile.url # 0)
    /\ UNCHANGED <<isDragging, effectPreview, mounted, created>>
    /\ UNCHANGED <<configVars, pipelineVars, sanVars>>

\* The remove button of row idx of the rendered list, line 284.
removeFile(indexToRemove) ==
    /\ mounted /\ ~renderPending
    /\ indexToRemove \in 0..(Len(files) - 1)
    /\ files' = FilterIndex(files, 0, indexToRemove)
    /\ lastRemoved' = indexToRemove
    /\ UNCHANGED isDragging
    /\ UNCHANGED <<configVars, previewVars, pipelineVars, sanVars>>

(***************************************************************************)
(* The preview.  Object URLs are numbered 1, 2, ... in the order of their  *)
(* creation; revoked[u] counts the calls of URL.revokeObjectURL on u.      *)
(* effectPreview is the previewFile that the cleanup function of the       *)
(* effect of lines 29-35 has captured: the value of the last render whose  *)
(* effect ran.                                                             *)
(***************************************************************************)
NoPreview == [url |-> 0, type |-> "none", name |-> ""]

CreateObjectURL == created + 1

RevokeObjectURL(reg, url) == [reg EXCEPT ![url] = @ + 1]

\* A cleanup that releases nothing.
EffectCleanupKeepsUrl(reg, captured) == reg

\* The cleanup function returned by the effect, lines 30-34.
EffectCleanup(reg, captured) ==
    IF captured # NoPreview THEN RevokeObjectURL(reg, captured.url) ELSE reg

LiveUrls == {u \in 1..created : revoked[u] = 0}

\* The preview button of row i of the rendered list, line 274.
handlePreview(i) ==
    /\ mounted /\ ~renderPending
    /\ i \in 1..Len(files)
    /\ created < MaxUrls
    /\ created' = CreateObjectURL
    /\ previewFile' =
         [ url |-> CreateObjectURL,
           type |-> IF files[i].type = PdfType THEN "pdf" ELSE "image",
           name |-> files[i].name ]
    /\ renderPending' = TRUE
    /\ UNCHANGED <<effectPreview, mounted, revoked>>
    /\ UNCHANGED <<configVars, fileVars, pipelineVars, sanVars>>

\* The backdrop and the close button exist while the modal is rendered,
\* lines 495-500.
closePreview ==
    /\ mounted /\ ~renderPending
    /\ previewFile # NoPreview
    /\ IF previewFile # NoPreview
       THEN /\ revoked' = RevokeObjectURL(revoked, previewFile.url)
            /\ previewFile' = NoPreview
            /\ renderPending' = TRUE
       ELSE UNCHANGED <<revoked, previewFile, renderPending>>
    /\ UNCHANGED <<effectPreview, mounted, created>>
    /\ UNCHANGED <<configVars, fileVars, pipelineVars, sanVars>>

\* The commit of the render that a new previewFile causes: the dependency
\* [previewFile] has changed, so the cleanup of the previous effect runs and
\* the effect runs again, capturing the rendered previewFile.
PreviewEffect ==
    /\ mounted /\ renderPending
    /\ revoked' = EffectCleanup(revoked, effectPreview)
    /\ effectPreview' = previewFile
    /\ renderPending' = FALSE
    /\ UNCHANGED <<previewFile, mounted, created>>
    /\ UNCHANGED <<configVars, fileVars, pipelineVars, sanVars>>

\* The component unmounts: the cleanup of the current effect runs.
Unmount ==
    /\ mounted /\ ~renderPending
    /\ revoked' = EffectCleanup(revoked, effectPreview)
    /\ mounted' = FALSE
    /\ UNCHANGED <<previewFile, effectPreview, renderPending, created>>
    /\ UNCHANGED <<configVars, fileVars, pipelineVars, sanVars>>

InitPreviewVars ==
    /\ previewFile = NoPreview
    /\ effectPreview = NoPreview
    /\ renderPending = FALSE
    /\ mounted = TRUE
    /\ created = 0
    /\ revoked = [u \in 1..MaxUrls |-> 0]

(***************************************************************************)
(* The generation pipeline, handleGenerate.  A run is one invocation that  *)
(* passed validation and is suspended at an await: it holds the files and  *)
(* the config its closure captured, the parts built so far, the index of   *)
(* the file being read and where it waits ("reading": a FileReader,        *)
(* "calling": generateContent).                                            *)
(***************************************************************************)
Null == "null"
ValidationMsg == "Vui long nhap chu de kiem tra hoac tai len tai lieu."
FallbackMsg == "Da co loi xay ra khi tao de."
TopicFallback == "Dua theo tai lieu dinh kem"

\* What may be thrown at the catch of line 181: an Error with a message, an
\* Error whose message is empty, and the ProgressEvent a failed FileReader
\* rejects with, which has no message.
ProviderError == [hasMessage |-> TRUE, message |-> "API error"]
EmptyMessageError == [hasMessage |-> TRUE, message |-> ""]
ProgressEvent == [hasMessage |-> FALSE, message |-> ""]
CallErrors == {ProviderError, EmptyMessageError}

\* err.message without the fallback.
ErrorMessageVerbatim(err) == err.message

\* err.message || fallback
ErrorMessage(err) ==
    IF err.hasMessage /\ err.message # "" THEN err.message ELSE FallbackMsg

\* What generateContent may resolve with: response.text is undefined or a text.
FencedDoc == Fence \o <<Newline, Letter, Newline>> \o Fence
FencedLatexDoc == FenceLatex \o <<Newline, Letter, Newline>> \o Fence
NoText == [hasText |-> FALSE, text |-> <<>>]
Responses ==
    { NoText,
      [hasText |-> TRUE, text |-> <<>>],
      [hasText |-> TRUE, text |-> <<Letter>>],
      [hasText |-> TRUE, text |-> FencedDoc],
      [hasText |-> TRUE, text |-> FencedLatexDoc] }

\* response.text without the fallback to the empty string.
ResponseTextUndefined(response) ==
    IF response.hasText THEN response.text ELSE <<"undefined">>

\* response.text || ''
ResponseText(response) == IF response.hasText THEN response.text ELSE <<>>

GetLatexTemplate(language) == <<"template", language>>

\* A prompt that numbers the submissions in flight.
PromptTextNumbered(cfg, nFiles) ==
    [ attachments |-> IF nFiles > 0 THEN <<nFiles>> ELSE <<>>,
      data |-> IF cfg.varyData THEN "THAY DOI SO LIEU" ELSE "GIU NGUYEN SO LIEU",
      outputLanguage |-> IF cfg.language = "vi" THEN "TIENG VIET" ELSE "TIENG ANH (ENGLISH)",
      translate |-> cfg.language = "en",
      topic |-> IF cfg.topic # "" THEN cfg.topic ELSE TopicFallback,
      grade |-> cfg.grade,
      difficulty |-> cfg.difficulty,
      numMultipleChoice |-> cfg.numMultipleChoice + Len(runs),
      numEssay |-> cfg.numEssay,
      figures |-> IF cfg.useTikz THEN "TikZ" ELSE "includegraphics",
      templateName |-> IF cfg.language = "vi" THEN "Tieng Viet" ELSE "English",
      template |-> GetLatexTemplate(cfg.language) ]

\* The template literal of lines 109-150, as the values of its holes.
PromptText(cfg, nFiles) ==
    [ attachments |-> IF nFiles > 0 THEN <<nFiles>> ELSE <<>>,
      data |-> IF cfg.varyData THEN "THAY DOI SO LIEU" ELSE "GIU NGUYEN SO LIEU",
      outputLanguage |-> IF cfg.language = "vi" THEN "TIENG VIET" ELSE "TIENG ANH (ENGLISH)",
      translate |-> cfg.language = "en",
      topic |-> IF cfg.topic # "" THEN cfg.topic ELSE TopicFallback,
      grade |-> cfg.grade,
      difficulty |-> cfg.difficulty,
      numMultipleChoice |-> cfg.numMultipleChoice,
      numEssay |-> cfg.numEssay,
      figures |-> IF cfg.useTikz THEN "TikZ" ELSE "includegraphics",
      templateName |-> IF cfg.language = "vi" THEN "Tieng Viet" ELSE "English",
      template |-> GetLatexTemplate(cfg.language) ]

\* btoa of the bytes of a file.
Base64(bytes) ==
    CASE bytes = "%PDF" -> "JVBERg=="
      [] bytes = "png" -> "cG5n"
      [] bytes = "txt" -> "dHh0"

\* reader.result of readAsDataURL.
DataURL(file) == <<"data:">> \o file.type \o <<";base64", ",">> \o <<Base64(file.bytes)>>

\* result.split(',')[1]: what lies between the first comma and the next.
RECURSIVE UpToComma(_)
UpToComma(s) ==
    IF s = <<>> \/ Head(s) = "," THEN <<>> ELSE <<Head(s)>> \o UpToComma(Tail(s))

RECURSIVE AfterComma(_)
AfterComma(s) ==
    IF s = <<>> THEN <<>>
    ELSE IF Head(s) = "," THEN Tail(s) ELSE AfterComma(Tail(s))

\* The value fileToBase64 resolves with, lines 85-88.
FileToBase64(file) == UpToComma(AfterComma(DataURL(file)))

TextPart(text) == [kind |-> "text", text |-> <<text>>, mimeType |-> <<>>, data |-> <<>>]

InlineDataPart(file, base64Data) ==
    [kind |-> "inlineData", text |-> <<>>, mimeType |-> file.type, data |-> base64Data]

\* A push that puts the new part in front.
PushPartInFront(parts, part) == <<part>> \o parts

\* parts.push(...), line 156.
PushPart(parts, part) == Append(parts, part)

\* A guard that rejects nothing.
ValidationFailsNever(cfg, fs) == FALSE

\* A guard with its condition inverted.
ValidationFailsInverted(cfg, fs) == ~(cfg.topic = "" /\ Len(fs) = 0)

\* The guard of line 96.
ValidationFails(cfg, fs) == cfg.topic = "" /\ Len(fs) = 0

RemoveRun(k) == SubSeq(runs, 1, k - 1) \o SubSeq(runs, k + 1, Len(runs))

NewRun ==
    [ files |-> files,
      config |-> config,
      parts |-> <<TextPart(PromptText(config, Len(files)))>>,
      index |-> 1,
      pc |-> IF Len(files) = 0 THEN "calling" ELSE "reading" ]

\* A submission that leaves the previous result in place.
handleGenerateKeepsResult(ctorThrows, err) ==
    /\ mounted /\ ~renderPending
    /\ Len(runs) < MaxRuns
    /\ ~ValidationFails(config, files)
    /\ ~ctorThrows
    /\ isLoading' = TRUE
    /\ error' = Null
    /\ runs' = Append(runs, NewRun)
    /\ calls' = IF NewRun.pc = "calling" THEN 1 ELSE 0
    /\ outcome' = [step |-> "started", index |-> 0, response |-> NoText]
    /\ UNCHANGED <<generatedCode, published>>
    /\ UNCHANGED <<configVars, fileVars, previewVars, sanVars>>

\* handleGenerate up to its first await.  ctorThrows: new GoogleGenAI throws
\* err (it does without an API key).
handleGenerate(ctorThrows, err) ==
    /\ mounted /\ ~renderPending
    /\ Len(runs) < MaxRuns
    /\ IF ValidationFails(config, files)
       THEN /\ error' = ValidationMsg
            /\ UNCHANGED <<isLoading, generatedCode, runs, calls>>
            /\ outcome' = [step |-> "rejected", index |-> 0, response |-> NoText]
       ELSE IF ctorThrows
       THEN /\ generatedCode' = <<>>
            /\ error' = ErrorMessage(err)
            /\ isLoading' = FALSE
            /\ UNCHANGED runs
            /\ calls' = 0
            /\ outcome' = [step |-> "threw", index |-> 0, response |-> NoText]
       ELSE /\ isLoading' = TRUE
            /\ error' = Null
            /\ generatedCode' = <<>>
            /\ runs' = Append(runs, NewRun)
            /\ calls' = IF NewRun.pc = "calling" THEN 1 ELSE 0
            /\ outcome' = [step |-> "started", index |-> 0, response |-> NoText]
    /\ UNCHANGED published
    /\ UNCHANGED <<configVars, fileVars, previewVars, sanVars>>

\* The generate button, lines 407-409: disabled while isLoading.
GenerateButton(ctorThrows, err) ==
    /\ ~isLoading
    /\ handleGenerate(ctorThrows, err)

\* A loop that walks the list as it is now, not the list of the submission.
ReadLoadCurrentFiles(k) ==
    /\ k \in 1..Len(runs)
    /\ runs[k].pc = "reading"
    /\ LET run == runs[k]
           parts == IF run.index <= Len(files)
                    THEN PushPart(run.parts,
                                  InlineDataPart(files[run.index],
                                                 FileToBase64(files[run.index])))
                    ELSE run.parts
       IN  runs' = [runs EXCEPT ![k] =
                      IF run.index >= Len(files)
                      THEN [run EXCEPT !.parts = parts, !.pc = "calling"]
                      ELSE [run EXCEPT !.parts = parts, !.index = run.index + 1]]
    /\ calls' = IF runs[k].index >= Len(files) THEN calls + 1 ELSE calls
    /\ UNCHANGED <<generatedCode, isLoading, error, published>>
    /\ outcome' = [step |-> "read", index |-> runs[k].index, response |-> NoText]
    /\ UNCHANGED <<configVars, fileVars, previewVars, sanVars>>

\* reader.onload of the file being read: its part is pushed; the loop reads
\* the next file or, after the last, generateContent is called.
ReadLoad(k) ==
    /\ k \in 1..Len(runs)
    /\ runs[k].pc = "reading"
    /\ LET run == runs[k]
           file == run.files[run.index]
           parts == PushPart(run.parts, InlineDataPart(file, FileToBase64(file)))
       IN  runs' = [runs EXCEPT ![k] =
                      IF run.index = Len(run.files)
                      THEN [run EXCEPT !.parts = parts, !.pc = "calling"]
                      ELSE [run EXCEPT !.parts = parts, !.index = run.index + 1]]
    /\ calls' = IF runs[k].index = Len(runs[k].files) THEN calls + 1 ELSE calls
    /\ UNCHANGED <<generatedCode, isLoading, error, published>>
    /\ outcome' = [step |-> "read", index |-> runs[k].index, response |-> NoText]
    /\ UNCHANGED <<configVars, fileVars, previewVars, sanVars>>

\* A failed read that is skipped: the call goes out with the parts so far.
ReadErrorContinues(k) ==
    /\ k \in 1..Len(runs)
    /\ runs[k].pc = "reading"
    /\ runs' = [runs EXCEPT ![k].pc = "calling"]
    /\ calls' = calls + 1
    /\ UNCHANGED <<generatedCode, isLoading, error, published>>
    /\ outcome' = [step |-> "readFailed", index |-> runs[k].index, response |-> NoText]
    /\ UNCHANGED <<configVars, fileVars, previewVars, sanVars>>

\* reader.onerror of the file being read: the await throws the event.
ReadError(k) ==
    /\ k \in 1..Len(runs)
    /\ runs[k].pc = "reading"
    /\ error' = ErrorMessage(ProgressEvent)
    /\ isLoading' = FALSE
    /\ runs' = RemoveRun(k)
    /\ UNCHANGED <<generatedCode, calls, published>>
    /\ outcome' = [step |-> "readFailed", index |-> runs[k].index, response |-> NoText]
    /\ UNCHANGED <<configVars, fileVars, previewVars, sanVars>>

\* A catch without its finally: the busy flag stays.
CallRejectKeepsBusy(k, err) ==
    /\ k \in 1..Len(runs)
    /\ runs[k].pc = "calling"
    /\ error' = ErrorMessage(err)
    /\ runs' = RemoveRun(k)
    /\ UNCHANGED <<generatedCode, isLoading, calls, published>>
    /\ outcome' = [step |-> "callFailed", index |-> 0, response |-> NoText]
    /\ UNCHANGED <<configVars, fileVars, previewVars, sanVars>>

\* A success that also empties the attachment list.
CallResolveClearsFiles(k, response) ==
    /\ k \in 1..Len(runs)
    /\ runs[k].pc = "calling"
    /\ generatedCode' = Sanitize(ResponseText(response))
    /\ isLoading' = FALSE
    /\ runs' = RemoveRun(k)
    /\ published' = (published \/ generatedCode' # <<>>)
    /\ UNCHANGED <<error, calls>>
    /\ outcome' = [step |-> "succeeded", index |-> 0, response |-> response]
    /\ files' = <<>>
    /\ UNCHANGED <<isDragging, lastRemoved>>
    /\ UNCHANGED <<configVars, previewVars, sanVars>>

\* A response published as it came.
CallResolveRaw(k, response) ==
    /\ k \in 1..Len(runs)
    /\ runs[k].pc = "calling"
    /\ generatedCode' = ResponseText(response)
    /\ isLoading' = FALSE
    /\ runs' = RemoveRun(k)
    /\ published' = (published \/ generatedCode' # <<>>)
    /\ UNCHANGED <<error, calls>>
    /\ outcome' = [step |-> "succeeded", index |-> 0, response |-> response]
    /\ UNCHANGED <<configVars, fileVars, previewVars, sanVars>>

\* generateContent resolves.
CallResolve(k, response) ==
    /\ k \in 1..Len(runs)
    /\ runs[k].pc = "calling"
    /\ generatedCode' = Sanitize(ResponseText(response))
    /\ isLoading' = FALSE
    /\ runs' = RemoveRun(k)
    /\ published' = (published \/ generatedCode' # <<>>)
    /\ UNCHANGED <<error, calls>>
    /\ outcome' = [step |-> "succeeded", index |-> 0, response |-> response]
    /\ UNCHANGED <<configVars, fileVars, previewVars, sanVars>>

\* A rejected call that is issued again.
CallRejectRetries(k, err) ==
    /\ k \in 1..Len(runs)
    /\ runs[k].pc = "calling"
    /\ calls < 2
    /\ calls' = calls + 1
    /\ UNCHANGED <<generatedCode, isLoading, error, runs, published>>
    /\ outcome' = [step |-> "callFailed", index |-> 0, response |-> NoText]
    /\ UNCHANGED <<configVars, fileVars, previewVars, sanVars>>

\* generateContent rejects.
CallReject(k, err) ==
    /\ k \in 1..Len(runs)
    /\ runs[k].pc = "calling"
    /\ error' = ErrorMessage(err)
    /\ isLoading' = FALSE
    /\ runs' = RemoveRun(k)
    /\ UNCHANGED <<generatedCode, calls, published>>
    /\ outcome' = [step |-> "callFailed", index |-> 0, response |-> NoText]
    /\ UNCHANGED <<configVars, fileVars, previewVars, sanVars>>

InitPipelineVars ==
    /\ generatedCode = <<>>
    /\ isLoading = FALSE
    /\ error = Null
    /\ runs = <<>>
    /\ calls = 0
    /\ published = FALSE
    /\ outcome = [step |-> "none", index |-> 0, response |-> NoText]

(***************************************************************************)
(* The specifications.                                                     *)
(***************************************************************************)
Init ==
    /\ config = InitConfig
    /\ files = <<>>
    /\ isDragging = FALSE
    /\ lastRemoved = -1
    /\ InitPipelineVars
    /\ InitPreviewVars
    /\ InitSanVars
    /\ lastEntry = [field |-> "none", text |-> <<>>]

\* The component as the user drives it.
Next ==
    \/ \E t \in Topics : SetTopic(t)
    \/ \E newFiles \in FileLists : handleFileChange(newFiles)
    \/ \E dropped \in FileLists : onDrop(dropped)
    \/ \E i \in 0..(MaxFiles - 1) : removeFile(i)
    \/ onDragOver
    \/ onDragLeave
    \/ \E ctorThrows \in BOOLEAN, err \in CallErrors : GenerateButton(ctorThrows, err)
    \/ \E k \in 1..MaxRuns : ReadLoad(k)
    \/ \E k \in 1..MaxRuns : ReadError(k)
    \/ \E k \in 1..MaxRuns, response \in Responses : CallResolve(k, response)
    \/ \E k \in 1..MaxRuns, err \in CallErrors : CallReject(k, err)

Spec == Init /\ [][Next]_vars

\* What is pending settles: a FileReader fires onload or onerror, and
\* generateContent resolves or rejects.
Settle ==
    \/ \E k \in 1..MaxRuns : ReadLoad(k)
    \/ \E k \in 1..MaxRuns : ReadError(k)
    \/ \E k \in 1..MaxRuns, response \in Responses : CallResolve(k, response)
    \/ \E k \in 1..MaxRuns, err \in CallErrors : CallReject(k, err)

\* The component driven through the topic field, the file dialog and the
\* generate button, when every pending read and call settles in the end.
NextLive ==
    \/ \E t \in Topics : SetTopic(t)
    \/ \E newFiles \in FileLists : handleFileChange(newFiles)
    \/ \E ctorThrows \in BOOLEAN, err \in CallErrors : GenerateButton(ctorThrows, err)
    \/ \E k \in 1..MaxRuns : ReadLoad(k)
    \/ \E k \in 1..MaxRuns : ReadError(k)
    \/ \E k \in 1..MaxRuns, response \in Responses : CallResolve(k, response)
    \/ \E k \in 1..MaxRuns, err \in CallErrors : CallReject(k, err)

SpecLive == Init /\ [][NextLive]_vars /\ WF_vars(Settle)

\* handleGenerate called as a function, whatever the button shows.
NextDirect ==
    \/ \E t \in Topics : SetTopic(t)
    \/ \E newFiles \in FileLists : handleFileChange(newFiles)
    \/ \E dropped \in FileLists : onDrop(dropped)
    \/ \E ctorThrows \in BOOLEAN, err \in CallErrors : handleGenerate(ctorThrows, err)
    \/ \E k \in 1..MaxRuns : ReadLoad(k)
    \/ \E k \in 1..MaxRuns : ReadError(k)
    \/ \E k \in 1..MaxRuns, response \in Responses : CallResolve(k, response)
    \/ \E k \in 1..MaxRuns, err \in CallErrors : CallReject(k, err)

SpecDirect == Init /\ [][NextDirect]_vars

\* Attachments and their preview.
NextPreview ==
    \/ \E newFiles \in FileLists : handleFileChange(newFiles)
    \/ \E dropped \in FileLists : onDrop(dropped)
    \/ \E i \in 0..(MaxFiles - 1) : removeFile(i)
    \/ \E i \in 1..MaxFiles : handlePreview(i)
    \/ closePreview
    \/ PreviewEffect
    \/ Unmount

SpecPreview == Init /\ [][NextPreview]_vars

\* The configuration form.
NextConfig ==
    \/ \E l \in Languages : SetLanguage(l)
    \/ \E t \in Topics : SetTopic(t)
    \/ \E g \in Grades : SetGrade(g)
    \/ \E d \in ExamDifficulty : SetDifficulty(d)
    \/ \E entry \in NumEntries : SetNumMultipleChoice(entry)
    \/ \E entry \in NumEntries : SetNumEssay(entry)
    \/ ToggleUseTikz
    \/ ToggleVaryData

SpecConfig == Init /\ [][NextConfig]_vars

\* The prompt of submissions made one after the other without waiting, for
\* every value of the holes of the template that have two values and every
\* list of files, from which rows may be removed between submissions.
PromptConfigs ==
    { [InitConfig EXCEPT !.topic = t, !.language = l, !.varyData = v, !.useTikz = u] :
        t \in Topics, l \in Languages, v \in BOOLEAN, u \in BOOLEAN }

InitPrompt ==
    /\ config \in PromptConfigs
    /\ files \in FileLists
    /\ isDragging = FALSE
    /\ lastRemoved = -1
    /\ InitPipelineVars
    /\ InitPreviewVars
    /\ InitSanVars
    /\ lastEntry = [field |-> "none", text |-> <<>>]

NextPrompt ==
    \/ \E i \in 0..(MaxFiles - 1) : removeFile(i)
    \/ \E err \in CallErrors : handleGenerate(FALSE, err)

SpecPrompt == InitPrompt /\ [][NextPrompt]_vars

\* The sanitizer on every text of at most MaxTextLen characters.
InitSanitize ==
    /\ config = InitConfig
    /\ files = <<>>
    /\ isDragging = FALSE
    /\ lastRemoved = -1
    /\ InitPipelineVars
    /\ InitPreviewVars
    /\ sanIn \in Texts
    /\ sanOut = <<>>
    /\ sanAgain = <<>>
    /\ sanStage = 0
    /\ lastEntry = [field |-> "none", text |-> <<>>]

NextSanitize ==
    \/ SanitizeOnce
    \/ SanitizeAgain

SpecSanitize == InitSanitize /\ [][NextSanitize]_vars

(***************************************************************************)
(* The claims.                                                             *)
(***************************************************************************)

\* C1 (SpecDirect): at most one Requesting episode is active at any time: a
\* handleGenerate that arrives while an earlier one is still suspended starts
\* no second run.
C1_OneRequestingEpisode == Len(runs) <= 1

\* C2 (Spec): a submission made with an empty topic and an empty attachment
\* list starts no run (no file is read, no call is issued), surfaces the
\* validation message and leaves the busy flag false and the result alone.
C2_EmptySubmissionRejected ==
    [][ ( /\ config.topic = ""
          /\ files = <<>>
          /\ \E ctorThrows \in BOOLEAN, err \in CallErrors :
                GenerateButton(ctorThrows, err) )
        => ( /\ runs' = runs
             /\ error' = ValidationMsg
             /\ isLoading' = FALSE
             /\ generatedCode' = generatedCode ) ]_vars

\* C2 witness: the validation message is showing for an empty form, and
\* nothing is in flight.
C2_Witness ==
    /\ error = ValidationMsg
    /\ config.topic = ""
    /\ files = <<>>
    /\ runs = <<>>
    /\ ~isLoading

\* C3 (SpecPreview): at most one created and not yet revoked object URL
\* exists in every reachable state.
C3_OneLivePreviewUrl == Cardinality(LiveUrls) <= 1

\* C4 (SpecPreview): no object URL is revoked more than once.
C4_RevokedAtMostOnce == \A u \in 1..MaxUrls : revoked[u] <= 1

\* C5 (SpecPreview): once the component is unmounted, every object URL that
\* was ever created has been revoked.
C5_NoLeakAfterUnmount == ~mounted => LiveUrls = {}

\* C5 witness: the component was unmounted with a preview open that replaced
\* an earlier one and was never closed.
C5_Witness ==
    /\ ~mounted
    /\ previewFile # NoPreview
    /\ previewFile.url >= 2
    /\ \A u \in 1..created : revoked[u] = 1

\* C6 (SpecConfig): the stored counts stay within the ranges of their fields,
\* numMultipleChoice in 0..50 and numEssay in 0..10.
C6_CountsWithinRange ==
    /\ config.numMultipleChoice \in 0..MaxMultipleChoice
    /\ config.numEssay \in 0..MaxEssay

\* C7 (Spec): every attachment in the list, and every attachment part of a
\* request being built or sent, has type application/pdf or image/...
AcceptedType(type) ==
    \/ type = <<"application", "/", "pdf">>
    \/ (Len(type) >= 2 /\ type[1] = "image" /\ type[2] = "/")

C7_OnlyPdfOrImageAttachments ==
    /\ \A i \in 1..Len(files) : AcceptedType(files[i].type)
    /\ \A k \in 1..Len(runs) : \A j \in 1..Len(runs[k].parts) :
          runs[k].parts[j].kind = "inlineData" => AcceptedType(runs[k].parts[j].mimeType)

\* C8 (SpecSanitize): sanitizing a sanitized text changes nothing.
C8_SanitizeIdempotent == sanStage = 2 => sanAgain = sanOut

\* C9 (SpecSanitize): the sanitized text is the raw text without its opening
\* marker (the fence with the latex hint if the text begins with it, else the
\* bare fence if the text begins with it, else nothing), without a fence that
\* ends what follows the opening marker (only when there was an opening
\* marker), and without the whitespace that then surrounds it.
AllWhitespace(s) == \A i \in 1..Len(s) : s[i] \in {"\n"}

NoOuterWhitespace(s) ==
    s = <<>> \/ (s[1] \notin {"\n"} /\ s[Len(s)] \notin {"\n"})

OpeningMarker(raw) ==
    IF Len(raw) >= 4 /\ (\A i \in 1..3 : raw[i] = "bt") /\ raw[4] = "latex"
    THEN SubSeq(raw, 1, 4)
    ELSE IF Len(raw) >= 3 /\ (\A i \in 1..3 : raw[i] = "bt")
         THEN SubSeq(raw, 1, 3)
         ELSE <<>>

ClosingMarker(raw) ==
    LET open == Len(OpeningMarker(raw))
    IN  IF /\ open > 0
           /\ Len(raw) - open >= 3
           /\ \A i \in (Len(raw) - 2)..Len(raw) : raw[i] = "bt"
        THEN SubSeq(raw, Len(raw) - 2, Len(raw))
        ELSE <<>>

C9_SanitizeResult ==
    sanStage >= 1 =>
        /\ NoOuterWhitespace(sanOut)
        /\ \E l \in 0..Len(sanIn), r \in 0..Len(sanIn) :
              LET open == Len(OpeningMarker(sanIn))
                  close == Len(ClosingMarker(sanIn))
              IN  /\ open + l + Len(sanOut) + r + close = Len(sanIn)
                  /\ AllWhitespace(SubSeq(sanIn, open + 1, open + l))
                  /\ sanOut = SubSeq(sanIn, open + l + 1, open + l + Len(sanOut))
                  /\ AllWhitespace(SubSeq(sanIn, open + l + Len(sanOut) + 1, Len(sanIn) - close))

\* C9 witness: a text fenced with the latex hint has been sanitized to what
\* the fences enclose.
C9_Witness ==
    /\ sanStage >= 1
    /\ sanIn = <<"bt", "bt", "bt", "latex", "D", "bt", "bt", "bt">>
    /\ sanOut = <<"D">>

\* C10 (Spec): while the files of a run are read, and when its call is
\* issued, its payload is the instruction text followed by one (mimeType,
\* base64) part for each attachment read so far, in the order of the list;
\* at the call every attachment of a non-empty list has its part.
ExpectedAttachmentPart(file) ==
    [ kind |-> "inlineData",
      text |-> <<>>,
      mimeType |-> file.type,
      data |-> <<Base64(file.bytes)>> ]

C10_PayloadOrder ==
    \A k \in 1..Len(runs) :
        LET run == runs[k]
            done == IF run.pc = "calling" THEN Len(run.files) ELSE run.index - 1
        IN  /\ Len(run.parts) = 1 + done
            /\ run.parts[1].kind = "text"
            /\ run.parts[1].text = <<PromptText(run.config, Len(run.files))>>
            /\ \A i \in 1..done : run.parts[i + 1] = ExpectedAttachmentPart(run.files[i])

\* C10 witness: a call is in flight whose payload carries two different
\* attachments.
C10_Witness ==
    \E k \in 1..Len(runs) :
        /\ runs[k].pc = "calling"
        /\ Len(runs[k].files) = 2
        /\ runs[k].files[1] # runs[k].files[2]

\* C11 (Spec): when the read of any one attachment of a submission fails,
\* the attempt ends there: its run is gone, no call has been issued for it,
\* the busy flag is cleared, the result is empty and an error message shows;
\* and a call in flight always carries a part for every attachment of its
\* submission, never only those read before a failure.
C11_ReadFailureFailsWhole ==
    [][ /\ outcome'.step = "readFailed"
           => ( /\ runs' = <<>>
                /\ calls' = 0
                /\ ~isLoading'
                /\ generatedCode' = <<>>
                /\ error' \notin {Null, ""} )
        /\ \A k \in 1..Len(runs') :
              runs'[k].pc = "calling"
                 => ( /\ Len(runs'[k].parts) = 1 + Len(runs'[k].files)
                      /\ outcome'.step # "readFailed" ) ]_vars

\* C11 witness: of two attachments A then B the first was read and the read
\* of the second failed; no call went out and the error shows.
C11_Witness ==
    /\ outcome.step = "readFailed"
    /\ outcome.index = 2
    /\ runs = <<>>
    /\ calls = 0
    /\ error = FallbackMsg
    /\ ~isLoading

\* C12 (Spec): a submission whose reads all succeeded has issued exactly one
\* call when its call is in flight; before that it has issued none; no
\* submission issues more than one; and when its call fails the run ends
\* with that one call: nothing is issued again.
C12_ExactlyOneCall ==
    [][ /\ calls' <= 1
        /\ \A k \in 1..Len(runs') :
              calls' = (IF runs'[k].pc = "calling" THEN 1 ELSE 0)
        /\ outcome'.step \in {"succeeded", "callFailed"}
              => ( calls' = 1 /\ runs' = <<>> ) ]_vars

\* C12 witness: the one call of a submission was rejected by the provider,
\* and nothing is in flight afterwards.
C12_Witness ==
    /\ outcome.step = "callFailed"
    /\ calls = 1
    /\ runs = <<>>
    /\ isDragging
    /\ error = "API error"

\* C13 (SpecLive): when every pending read and call settles, a busy
\* component is eventually not busy; whichever way a submission ends (result
\* published, read failed, call failed, constructor threw) the busy flag is
\* false and nothing is in flight, so the generate button is enabled again.
C13_RequestingEnds ==
    /\ isLoading ~> ~isLoading
    /\ [](outcome.step \in {"succeeded", "readFailed", "callFailed", "threw"}
             => (~isLoading /\ runs = <<>>))

\* C13 witness: a submission with attachments ended with a published result
\* and the component is not busy.
C13_Witness ==
    /\ outcome.step = "succeeded"
    /\ calls = 1
    /\ files # <<>>
    /\ generatedCode = <<"D">>
    /\ ~isLoading
    /\ runs = <<>>

\* C14 (Spec): a submission that passes validation clears the result and the
\* error before it suspends; while the component is busy the result is empty
\* and no error shows; and after an attempt that failed the result is empty,
\* whatever was published before.
C14_ResultClearedAtSubmission ==
    /\ outcome.step = "started" => isLoading
    /\ isLoading => (generatedCode = <<>> /\ error = Null)
    /\ outcome.step \in {"readFailed", "callFailed", "threw"} => generatedCode = <<>>

\* C14 witness: a result had been published, a later submission failed at
\* a read, and the result area is empty.
C14_Witness ==
    /\ published
    /\ outcome.step = "readFailed"
    /\ generatedCode = <<>>
    /\ error = FallbackMsg

\* C15 (Spec): after a call resolved, the result is the sanitized text of the
\* response and no error shows; a response of a bare fence around D publishes
\* exactly D; and the call of a submission with topic Fractions and no
\* attachment is the only call of that submission and carries one part, the
\* instruction text with that topic.
C15_SuccessPublishesSanitized ==
    /\ outcome.step = "succeeded"
          => ( /\ generatedCode = Sanitize(ResponseText(outcome.response))
               /\ error = Null
               /\ outcome.response.text = <<"bt", "bt", "bt", "\n", "D", "\n", "bt", "bt", "bt">>
                     => generatedCode = <<"D">> )
    /\ \A k \in 1..Len(runs) :
          ( /\ runs[k].pc = "calling"
            /\ runs[k].files = <<>>
            /\ runs[k].config.topic = "Fractions" )
          => ( /\ calls = 1
               /\ Len(runs[k].parts) = 1
               /\ runs[k].parts[1].kind = "text"
               /\ runs[k].parts[1].text[1].topic = "Fractions" )

\* C15 witness: with topic Fractions and no attachment, the one call resolved
\* with a bare fence around D and D is published.
C15_Witness ==
    /\ outcome.step = "succeeded"
    /\ outcome.response.text = <<"bt", "bt", "bt", "\n", "D", "\n", "bt", "bt", "bt">>
    /\ generatedCode = <<"D">>
    /\ error = Null
    /\ calls = 1
    /\ files = <<>>
    /\ config.topic = "Fractions"

\* C16 (Spec): after a call resolved without a text (undefined or empty), the
\* result is empty, the error is null, the busy flag is false and nothing is
\* in flight.
C16_EmptyResponseIsSuccess ==
    ( /\ outcome.step = "succeeded"
      /\ (~outcome.response.hasText \/ outcome.response.text = <<>>) )
    => ( /\ generatedCode = <<>>
         /\ error = Null
         /\ ~isLoading
         /\ runs = <<>> )

\* C16 witness: a call resolved with a response whose text is undefined.
C16_Witness ==
    /\ outcome.step = "succeeded"
    /\ ~outcome.response.hasText
    /\ generatedCode = <<>>
    /\ error = Null
    /\ ~isLoading

\* C17 (Spec): a failed read or a rejected call ends the submission with the
\* busy flag false, nothing in flight, an empty result and one message that
\* is neither null nor empty: for a rejected call the message of the error
\* if it has a non-empty one, else the fallback; for a failed read the
\* fallback.
C17_FailureCollapses ==
    [][ /\ outcome'.step \in {"readFailed", "callFailed"}
           => ( /\ error' \notin {Null, ""}
                /\ generatedCode' = <<>>
                /\ ~isLoading'
                /\ runs' = <<>> )
        /\ \A k \in 1..Len(runs), err \in CallErrors :
              CallReject(k, err)
                 => error' = (IF err.message # ""
                              THEN err.message
                              ELSE "Da co loi xay ra khi tao de.")
        /\ \A k \in 1..Len(runs) :
              ReadError(k) => error' = "Da co loi xay ra khi tao de." ]_vars

\* C17 witness: a call was rejected with an error whose message is empty and
\* the fallback message shows; an earlier result had been published.
C17_Witness ==
    /\ outcome.step = "callFailed"
    /\ error = FallbackMsg
    /\ published
    /\ generatedCode = <<>>
    /\ ~isLoading

\* C18 (SpecConfig): after a text without any digit (the empty string) was
\* entered in a count field, that field holds 0.
NonNumeric(text) ==
    \A i \in 1..Len(text) :
        text[i] \notin {"0", "1", "2", "3", "4", "5", "6", "7", "8", "9"}

C18_NonNumericStoresZero ==
    /\ (lastEntry.field = "numMultipleChoice" /\ NonNumeric(lastEntry.text))
          => config.numMultipleChoice = 0
    /\ (lastEntry.field = "numEssay" /\ NonNumeric(lastEntry.text))
          => config.numEssay = 0

\* C18 witness: the multiple-choice field was emptied and now holds 0, while
\* the essay field keeps the 7 entered before.
C18_Witness ==
    /\ lastEntry = [field |-> "numMultipleChoice", text |-> <<>>]
    /\ config.numMultipleChoice = 0
    /\ config.numEssay = 7

\* C19 (SpecPreview): handleFileChange leaves the listed files where they are
\* and puts the chosen files after them in the order given; removeFile with
\* the index of a row yields the list without that row, the rows before it
\* in place and the rows after it one position down; and the filter of
\* removeFile with an index that is no row of the list yields the list
\* itself.
C19_AppendAndRemoveAt ==
    [][ /\ \A newFiles \in FileLists :
              handleFileChange(newFiles)
                 => ( /\ Len(files') = Len(files) + Len(newFiles)
                      /\ \A j \in 1..Len(files) : files'[j] = files[j]
                      /\ \A j \in 1..Len(newFiles) : files'[Len(files) + j] = newFiles[j] )
        /\ \A i \in 0..(MaxFiles - 1) :
              removeFile(i)
                 => ( /\ Len(files') = Len(files) - 1
                      /\ \A j \in 1..i : files'[j] = files[j]
                      /\ \A j \in (i + 1)..Len(files') : files'[j] = files[j + 1] )
        /\ \A i \in {-1} \cup (Len(files)..(MaxFiles + 1)) :
              FilterIndex(files, 0, i) = files ]_vars

\* C19 witness: the first of two rows was removed and b.png, which was the
\* second row, is now the first and only one.
C19_Witness ==
    /\ lastRemoved = 0
    /\ files = <<PngFile>>
    /\ mounted

\* C20 (SpecPreview): removeFile changes neither previewFile nor the
\* revocation count of any object URL nor the number of URLs created; and a
\* step that opens or closes a preview leaves the attachment list as it is.
C20_RemovalAndPreviewIndependent ==
    [][ /\ \A i \in 0..(MaxFiles - 1) :
              removeFile(i)
                 => ( /\ previewFile' = previewFile
                      /\ revoked' = revoked
                      /\ created' = created )
        /\ (previewFile' # previewFile \/ revoked' # revoked \/ created' # created)
              => files' = files ]_vars

\* C20 witness: the only attachment was removed while its preview was open;
\* the preview is still open and its URL has not been revoked.
C20_Witness ==
    /\ previewFile # NoPreview
    /\ revoked[previewFile.url] = 0
    /\ files = <<>>
    /\ mounted
    /\ ~renderPending

ConversionsStarted(run) == run.index

C22_AllConversionsStarted ==
    [][ \A k \in 1..Len(runs) :
           ReadError(k) => ConversionsStarted(runs[k]) = Len(runs[k].files) ]_vars

\* C23 (Spec): a run starts from the config and the attachment list of the
\* moment of the submission; a step that changes the config or the list
\* changes no run in flight; and in every call in flight the number of
\* attachments the instruction text states is the number of attachment
\* parts of that payload, which is the number of attachments of the
\* submission.
AttachmentParts(run) ==
    Cardinality({j \in 1..Len(run.parts) : run.parts[j].kind = "inlineData"})

C23_SnapshotAtSubmit ==
    [][ /\ Len(runs') > Len(runs)
           => ( /\ runs'[Len(runs')].files = files
                /\ runs'[Len(runs')].config = config )
        /\ (files' # files \/ config' # config) => runs' = runs
        /\ \A k \in 1..Len(runs') :
              runs'[k].pc = "calling"
                 => ( /\ AttachmentParts(runs'[k]) = Len(runs'[k].files)
                      /\ runs'[k].parts[1].text[1].attachments =
                            (IF AttachmentParts(runs'[k]) > 0
                             THEN <<AttachmentParts(runs'[k])>>
                             ELSE <<>>) ) ]_vars

\* C23 witness: a call is in flight for a submission made with two
\* attachments and the topic Fractions; since then the list was emptied and
\* the topic cleared.
C23_Witness ==
    /\ Len(runs) = 1
    /\ runs[1].pc = "calling"
    /\ Len(runs[1].files) = 2
    /\ runs[1].config.topic = "Fractions"
    /\ files = <<>>
    /\ config.topic = ""

\* C24 (Spec): every call in flight either states the topic of its
\* submission, which is not empty, or carries at least one attachment part;
\* the instruction text names the fallback phrase as its topic only when the
\* topic of the submission is empty, and then the payload has an attachment
\* part.
C24_TopicOrAttachment ==
    \A k \in 1..Len(runs) :
        runs[k].pc = "calling"
           => LET run == runs[k]
                  stated == run.parts[1].text[1].topic
                  attached == Cardinality({j \in 1..Len(run.parts) :
                                              run.parts[j].kind = "inlineData"})
              IN  /\ (run.config.topic # "" /\ stated = run.config.topic) \/ attached >= 1
                  /\ run.config.topic # "" => stated = run.config.topic
                  /\ run.config.topic = ""
                        => (stated = "Dua theo tai lieu dinh kem" /\ attached >= 1)

\* C24 witness: a call is in flight for a submission without a topic and
\* with one attachment; its instruction text names the fallback phrase.
C24_Witness ==
    \E k \in 1..Len(runs) :
        /\ runs[k].pc = "calling"
        /\ runs[k].config.topic = ""
        /\ Len(runs[k].files) = 1
        /\ runs[k].parts[1].text[1].topic = TopicFallback

\* C25 (Spec): no step of a submission (the press of the generate button, a
\* read that settles, a call that settles) changes the config or the
\* attachment list; and a press made with an empty topic and an empty list
\* sets the validation message and changes nothing else: not the result,
\* not the busy flag, not the runs, not the preview.
C25_SubmissionFrame ==
    [][ /\ ( \/ \E ctorThrows \in BOOLEAN, err \in CallErrors :
                   GenerateButton(ctorThrows, err)
             \/ \E k \in 1..Len(runs) : ReadLoad(k) \/ ReadError(k)
             \/ \E k \in 1..Len(runs), response \in Responses : CallResolve(k, response)
             \/ \E k \in 1..Len(runs), err \in CallErrors : CallReject(k, err) )
           => ( config' = config /\ files' = files )
        /\ ( /\ config.topic = ""
             /\ files = <<>>
             /\ \E ctorThrows \in BOOLEAN, err \in CallErrors :
                   GenerateButton(ctorThrows, err) )
           => ( /\ error' = ValidationMsg
                /\ generatedCode' = generatedCode
                /\ isLoading' = isLoading
                /\ runs' = runs
                /\ previewFile' = previewFile
                /\ isDragging' = isDragging ) ]_vars

\* C25 witness: a submission was rejected by the guard while the result of
\* an earlier submission was showing; the result is still there.
C25_Witness ==
    /\ outcome.step = "rejected"
    /\ error = ValidationMsg
    /\ generatedCode = <<"D">>
    /\ ~isLoading
    /\ config.topic = ""
    /\ files = <<>>

====
